---- MODULE Spec2Model ----
(***************************************************************************)
(* Model of the side-scrolling game core of src/components/GameCanvas.tsx  *)
(* (initLevel, the key handlers, update, handlePlayerDeath) and of the     *)
(* App state of src/App.tsx that the core reports to.                      *)
(*                                                                         *)
(* Lengths are whole pixels and velocities whole pixels per tick.  The     *)
(* numeric constants of ../constants are not part of the sources at hand;  *)
(* they are fixed here to integer values that are consistent with the      *)
(* level layout of initLevel and with the scenarios of the specification.  *)
(***************************************************************************)
EXTENDS Integers, Sequences, FiniteSets, TLC

\* ------------------------------------------------------------------------
\* Constants of ../constants (imported at GameCanvas.tsx:12-26)
\* ------------------------------------------------------------------------
CANVAS_WIDTH == 800
CANVAS_HEIGHT == 600
GRAVITY == 1
PLAYER_SPEED == 3
JUMP_FORCE == -15
BULLET_SPEED == 10
SHOOT_COOLDOWN == 15
CAMERA_OFFSET_X == 300
ENEMY_SPEED == 2
LEVEL_LENGTH == 4000

\* enum Direction, enum GameState (types)
Right == 1
Left == -1
GameStates == {"MENU", "PLAYING", "GAME_OVER", "VICTORY"}

\* ------------------------------------------------------------------------
\* Bounds of the exploration
\* ------------------------------------------------------------------------
MaxFrames == 100     \* frames explored from initLevel
ShootFrames == 25    \* the same, where the fire key is the key pressed
RunnerFrames == 40   \* frames explored from the runner checkpoint
PitFrames == 50      \* frames explored from the pit checkpoint
BossFrames == 40     \* frames explored from the boss checkpoint
AmbushFrames == 20   \* frames explored from the ambush checkpoint
PlatformFrames == 35 \* frames explored from the platform checkpoint
DropFrames == 20     \* frames explored from initLevel under the jump and down keys

\* ------------------------------------------------------------------------
\* Arithmetic helpers
\* ------------------------------------------------------------------------
Abs(n) == IF n < 0 THEN -n ELSE n

\* Math.max
Max(a, b) == IF a >= b THEN a ELSE b

Sgn(n) == IF n > 0 THEN 1 ELSE IF n < 0 THEN -1 ELSE 0

\* integer square root, for the length of the aim vector
ISqrt(v) == CHOOSE n \in 0..1500 : n * n <= v /\ (n + 1) * (n + 1) > v

\* c * speed for c the cosine (sine) of atan2, to whole pixels, rounded
\* toward zero: d / |(dx,dy)| * speed
AimComponent(d, dx, dy, speed) ==
  IF dx = 0 /\ dy = 0 THEN 0
  ELSE Sgn(d) * ((Abs(d) * speed) \div ISqrt(dx * dx + dy * dy))

\* ------------------------------------------------------------------------
\* Geometry
\* ------------------------------------------------------------------------
checkCollision(r1, r2) ==
  /\ r1.x < r2.x + r2.width
  /\ r1.x + r1.width > r2.x
  /\ r1.y < r2.y + r2.height
  /\ r1.y + r1.height > r2.y

\* ------------------------------------------------------------------------
\* Level data built by initLevel
\* ------------------------------------------------------------------------
addGround(x, width) ==
  [x |-> x, y |-> CANVAS_HEIGHT - 40, width |-> width, height |-> 40, type |-> "solid"]

addPlat(x, y, w) ==
  [x |-> x, y |-> y, width |-> w, height |-> 10, type |-> "pass-through"]

LevelPlatforms ==
  << addGround(0, 800), addGround(900, 300), addGround(1300, 600),
     addGround(2000, 200), addGround(2300, 1700),
     addPlat(400, 400, 100), addPlat(600, 300, 100), addPlat(950, 400, 100),
     addPlat(1400, 450, 100), addPlat(1600, 350, 100), addPlat(1800, 250, 100),
     addPlat(2400, 400, 100), addPlat(2600, 300, 100) >>

BossInitialHp == 50

InitialHp(type) == IF type = "boss" THEN BossInitialHp ELSE 1

spawnEnemy(x, type, y) ==
  [x |-> x,
   y |-> IF y = 0 THEN CANVAS_HEIGHT - 88 ELSE y,
   width |-> IF type = "boss" THEN 60 ELSE 24,
   height |-> IF type = "boss" THEN 80 ELSE 48,
   vx |-> 0,
   isDead |-> FALSE,
   type |-> type,
   hp |-> InitialHp(type),
   shootCooldown |-> 0,
   direction |-> Left]

LevelEnemies ==
  << spawnEnemy(600, "runner", 0), spawnEnemy(1000, "turret", 350),
     spawnEnemy(1200, "runner", 0), spawnEnemy(1500, "runner", 0),
     spawnEnemy(1700, "turret", 300), spawnEnemy(2200, "runner", 0),
     spawnEnemy(2500, "runner", 0), spawnEnemy(2800, "runner", 0),
     spawnEnemy(3500, "boss", CANVAS_HEIGHT - 120) >>

InitialPlayer ==
  [x |-> 100, y |-> 100, width |-> 24, height |-> 48, vx |-> 0, vy |-> 0,
   direction |-> Right, isGrounded |-> FALSE, shootCooldown |-> 0,
   invincibleTimer |-> 0, hp |-> 3, score |-> 0, facingVertical |-> 0]

InitialInputs ==
  [left |-> FALSE, right |-> FALSE, up |-> FALSE, down |-> FALSE,
   jump |-> FALSE, shoot |-> FALSE]

\* ------------------------------------------------------------------------
\* State
\* ------------------------------------------------------------------------
VARIABLES
  gameState,   \* App: useState<GameState>, as committed to GameCanvas
  score,       \* App: useState(0), the displayed score
  lives,       \* App: useState(3), the displayed lives
  player,      \* playerRef.current
  bullets,     \* bulletsRef.current
  enemies,     \* enemiesRef.current
  platforms,   \* platformsRef.current
  camera,      \* cameraRef.current
  inputs,      \* inputsRef.current
  tick,        \* tickRef.current
  ev,          \* what the last call of update did (calls made, requests issued)
  jumpsThisPress   \* jump impulses applied during the current press of the jump key

vars == << gameState, score, lives, player, bullets, enemies, platforms,
           camera, inputs, tick, ev, jumpsThisPress >>

\* The record of one call of update: nothing done yet.
NoEvents ==
  [stepped |-> FALSE,    \* update ran past its gameState guard
   hpStart |-> 0,        \* player.hp when update was entered
   scoreStart |-> 0,     \* player.score when update was entered
   startOnPlatform |-> FALSE, \* the player stood on a platform when update was entered
   jump |-> "none",      \* "jump": impulse applied, "drop": drop-through applied
   afterInt |-> [x |-> 0, y |-> 0, vy |-> 0],  \* player after integration and left bound
   afterCol |-> [y |-> 0, vy |-> 0, isGrounded |-> FALSE], \* player after the platform pass
   deaths |-> << >>,     \* calls of handlePlayerDeath, in order (DeathCall)
   requests |-> << >>,   \* setGameState calls, in order
   kills |-> << >>,      \* indices of the enemies whose hp reached 0
   hits |-> 0,           \* bullets that hit an enemy or the player
   fired |-> 0,          \* bullets spawned
   shots |-> << >>,      \* the bullets the shooting block pushed
   aim |-> [direction |-> Right, isGrounded |-> FALSE, cooldown |-> 0],
                         \* the player as the shooting block found it
   sinceShot |-> SHOOT_COOLDOWN,
                         \* steps since the step of the last player shot, at
                         \* most SHOOT_COOLDOWN (in NoEvents: no shot so far)
   sincePrev |-> SHOOT_COOLDOWN,  \* sinceShot when update was entered
   bulletHits |-> << >>, \* player bullets that changed an enemy's hp (BulletHit)
   passed |-> << >>,     \* player bullets that overlapped dead enemies only (BulletPass)
   dist |-> [j \in 1..9 |-> 0],
                         \* per enemy, |player.x - enemy.x| when the enemy loop came to it
   active |-> {},        \* the non-dead enemies found within the activation distance
   enemyShots |-> << >>, \* the bullets the enemy loop pushed: enemy, bullet
   touches |-> << >>,    \* the enemies whose turn of the loop called handlePlayerDeath
   activeSince |-> [j \in 1..9 |-> 120],
                         \* per enemy, the steps it was active in since the step
                         \* of its last shot, at most 120 (in NoEvents: no shot so far)
   run |-> [x0 |-> 100, facing0 |-> Right, cameraX |-> 0, vx |-> 0, facing |-> Right, x |-> 100],
                         \* the horizontal movement of the step: x, facing and
                         \* camera.x when update was entered; vx, facing and x
                         \* after lines 279-326
   dropFrom |-> {},      \* the platforms the player dropped through (jump with
                         \* down) and has overlapped ever since
   relanded |-> {},      \* those of them the collision pass of the step landed it on
   sinceLoss |-> 180,    \* steps since the step of the last life loss, at most
                         \* 180 (in NoEvents: no life lost so far)
   turns |-> << >>]      \* the turns of the bullet loop, in order (BulletTurn)

\* The world update works on: the refs and the App setters' latest values.
World(p, bs, es, cam, sc, lv, e) ==
  [player |-> p, bullets |-> bs, enemies |-> es, camera |-> cam,
   score |-> sc, lives |-> lv, ev |-> e]

\* ------------------------------------------------------------------------
\* handlePlayerDeath
\* ------------------------------------------------------------------------
\* the respawn logic with x put at the camera margin, not at the larger of
\* the margin and the player's x
Respawn_AtMargin(p, cam) ==
  [p EXCEPT !.y = -100,
            !.x = cam.x + 50,
            !.vx = 0,
            !.vy = 0,
            !.invincibleTimer = 180]

Respawn(p, cam) ==
  [p EXCEPT !.y = -100,
            !.x = Max(cam.x + 50, p.x),
            !.vx = 0,
            !.vy = 0,
            !.invincibleTimer = 180]

\* the record of one call of handlePlayerDeath: the player before (p) and
\* after (q) the call, and the camera the call read
DeathCall(p, q, cam) ==
  [timer |-> p.invincibleTimer, before |-> p.hp, after |-> q.hp,
   from |-> [x |-> p.x, y |-> p.y, vx |-> p.vx, vy |-> p.vy,
             invincibleTimer |-> p.invincibleTimer],
   to |-> [x |-> q.x, y |-> q.y, vx |-> q.vx, vy |-> q.vy,
           invincibleTimer |-> q.invincibleTimer],
   cameraX |-> cam.x]

\* handlePlayerDeath without its invincibleTimer guard
handlePlayerDeath_NoGuard(w) ==
  LET p == w.player
      hp1 == p.hp - 1
      p1 == [p EXCEPT !.hp = hp1]
      q == IF hp1 <= 0 THEN p1 ELSE Respawn(p1, w.camera)
  IN [w EXCEPT
        !.player = q,
        !.lives = hp1,
        !.ev.deaths = Append(@, DeathCall(p, q, w.camera)),
        !.ev.requests = IF hp1 <= 0 THEN Append(@, "GAME_OVER") ELSE @]

\* handlePlayerDeath with the respawn logic run whatever hp is left
handlePlayerDeath_AlwaysRespawn(w) ==
  LET p == w.player
  IN IF p.invincibleTimer > 0
     THEN [w EXCEPT !.ev.deaths = Append(@, DeathCall(p, p, w.camera))]
     ELSE LET hp1 == p.hp - 1
              q == Respawn([p EXCEPT !.hp = hp1], w.camera)
          IN [w EXCEPT
                !.player = q,
                !.lives = hp1,
                !.ev.deaths = Append(@, DeathCall(p, q, w.camera)),
                !.ev.requests = IF hp1 <= 0 THEN Append(@, "GAME_OVER") ELSE @]

handlePlayerDeath(w) ==
  LET p == w.player
  IN IF p.invincibleTimer > 0
     THEN [w EXCEPT !.ev.deaths = Append(@, DeathCall(p, p, w.camera))]
     ELSE LET hp1 == p.hp - 1
              p1 == [p EXCEPT !.hp = hp1]
              q == IF hp1 <= 0 THEN p1 ELSE Respawn(p1, w.camera)
          IN [w EXCEPT
                !.player = q,
                !.lives = hp1,
                !.ev.deaths = Append(@, DeathCall(p, q, w.camera)),
                !.ev.requests = IF hp1 <= 0 THEN Append(@, "GAME_OVER") ELSE @]

\* ------------------------------------------------------------------------
\* update: player physics
\* ------------------------------------------------------------------------
\* the horizontal movement with the right key first
HorizontalMovement_RightFirst(p, inp) ==
  IF inp.right THEN [p EXCEPT !.vx = PLAYER_SPEED, !.direction = Right]
  ELSE IF inp.left THEN [p EXCEPT !.vx = -PLAYER_SPEED, !.direction = Left]
  ELSE [p EXCEPT !.vx = 0]

HorizontalMovement(p, inp) ==
  IF inp.left THEN [p EXCEPT !.vx = -PLAYER_SPEED, !.direction = Left]
  ELSE IF inp.right THEN [p EXCEPT !.vx = PLAYER_SPEED, !.direction = Right]
  ELSE [p EXCEPT !.vx = 0]

VerticalFacing(p, inp) ==
  [p EXCEPT !.facingVertical = IF inp.up THEN 1 ELSE IF inp.down THEN -1 ELSE 0]

JumpKind(p, inp) ==
  IF inp.jump /\ p.isGrounded
  THEN (IF inp.down THEN "drop" ELSE "jump")
  ELSE "none"

\* the drop-through without the nudge: y is kept and vy starts at 0
Jumping_NoNudge(p, inp) ==
  IF inp.jump /\ p.isGrounded
  THEN IF inp.down
       THEN [p EXCEPT !.isGrounded = FALSE, !.vy = 0]
       ELSE [p EXCEPT !.vy = JUMP_FORCE, !.isGrounded = FALSE]
  ELSE p

Jumping(p, inp) ==
  IF inp.jump /\ p.isGrounded
  THEN IF inp.down
       THEN [p EXCEPT !.y = @ + 1, !.isGrounded = FALSE, !.vy = 1]
       ELSE [p EXCEPT !.vy = JUMP_FORCE, !.isGrounded = FALSE]
  ELSE p

\* gravity and integration without the left level bound
Integrate_NoLeftBound(p, cam) ==
  LET vy1 == p.vy + GRAVITY
  IN [p EXCEPT !.vy = vy1, !.x = @ + p.vx, !.y = @ + vy1]

Integrate(p, cam) ==
  LET vy1 == p.vy + GRAVITY
      x1 == p.x + p.vx
  IN [p EXCEPT !.vy = vy1,
               !.x = IF x1 < cam.x THEN cam.x ELSE x1,
               !.y = @ + vy1]

\* the landing test with wasAbove strict: the bottom edge was above the top
LandOn_StrictlyAbove(p, plat) ==
  IF checkCollision(p, plat)
  THEN LET wasAbove == (p.y - p.vy + p.height) < plat.y
       IN IF p.vy > 0 /\ wasAbove
          THEN [p EXCEPT !.y = plat.y - p.height, !.vy = 0, !.isGrounded = TRUE]
          ELSE p
  ELSE p

\* one platform of the collision pass
LandOn(p, plat) ==
  IF checkCollision(p, plat)
  THEN LET wasAbove == (p.y - p.vy + p.height) <= plat.y
       IN IF p.vy > 0 /\ wasAbove
          THEN [p EXCEPT !.y = plat.y - p.height, !.vy = 0, !.isGrounded = TRUE]
          ELSE p
  ELSE p

RECURSIVE CheckPlatforms(_, _, _)
CheckPlatforms(p, plats, i) ==
  IF i > Len(plats) THEN p
  ELSE CheckPlatforms(LandOn(p, plats[i]), plats, i + 1)

\* the collision pass testing the first platform of the level only
CollisionDetection_FirstPlatformOnly(p, plats) ==
  CheckPlatforms([p EXCEPT !.isGrounded = FALSE], SubSeq(plats, 1, 1), 1)

CollisionDetection(p, plats) ==
  CheckPlatforms([p EXCEPT !.isGrounded = FALSE], plats, 1)

PitfallDeath(w) ==
  IF w.player.y > CANVAS_HEIGHT THEN handlePlayerDeath(w) ELSE w

\* ------------------------------------------------------------------------
\* update: shooting
\* ------------------------------------------------------------------------
Diagonal == (BULLET_SPEED * 7) \div 10     \* BULLET_SPEED * 0.7

\* the shoot direction with down aimed on the ground too
ShootDirection_DownOnGround(p, inp) ==
  IF p.facingVertical = 1
  THEN IF inp.left \/ inp.right
       THEN [vx |-> p.direction * Diagonal, vy |-> -Diagonal]
       ELSE [vx |-> 0, vy |-> -BULLET_SPEED]
  ELSE IF p.facingVertical = -1
  THEN IF inp.left \/ inp.right
       THEN [vx |-> p.direction * Diagonal, vy |-> Diagonal]
       ELSE [vx |-> 0, vy |-> BULLET_SPEED]
  ELSE [vx |-> p.direction * BULLET_SPEED, vy |-> 0]

\* the velocity of a player bullet (bx, by)
ShootDirection(p, inp) ==
  IF p.facingVertical = 1
  THEN IF inp.left \/ inp.right
       THEN [vx |-> p.direction * Diagonal, vy |-> -Diagonal]
       ELSE [vx |-> 0, vy |-> -BULLET_SPEED]
  ELSE IF p.facingVertical = -1 /\ ~p.isGrounded
  THEN IF inp.left \/ inp.right
       THEN [vx |-> p.direction * Diagonal, vy |-> Diagonal]
       ELSE [vx |-> 0, vy |-> BULLET_SPEED]
  ELSE [vx |-> p.direction * BULLET_SPEED, vy |-> 0]

PlayerBullet(p, inp) ==
  LET v == ShootDirection(p, inp)
  IN [x |-> p.x + p.width \div 2, y |-> p.y + p.height \div 2,
      width |-> 8, height |-> 8, vx |-> v.vx, vy |-> v.vy,
      owner |-> "player", life |-> 100]

\* the shooting block firing one step before the cooldown has run out
Shooting_EarlyFire(w, inp) ==
  LET p0 == w.player
      p == IF p0.shootCooldown > 0 THEN [p0 EXCEPT !.shootCooldown = @ - 1] ELSE p0
  IN IF inp.shoot /\ p.shootCooldown <= 1
     THEN [w EXCEPT !.bullets = Append(@, PlayerBullet(p, inp)),
                    !.player = [p EXCEPT !.shootCooldown = SHOOT_COOLDOWN],
                    !.ev.fired = @ + 1]
     ELSE [w EXCEPT !.player = p]

Shooting(w, inp) ==
  LET p0 == w.player
      p == IF p0.shootCooldown > 0 THEN [p0 EXCEPT !.shootCooldown = @ - 1] ELSE p0
  IN IF inp.shoot /\ p.shootCooldown <= 0
     THEN [w EXCEPT !.bullets = Append(@, PlayerBullet(p, inp)),
                    !.player = [p EXCEPT !.shootCooldown = SHOOT_COOLDOWN],
                    !.ev.fired = @ + 1]
     ELSE [w EXCEPT !.player = p]

\* ------------------------------------------------------------------------
\* update: bullets
\* ------------------------------------------------------------------------
RemoveAt(s, i) == SubSeq(s, 1, i - 1) \o SubSeq(s, i + 1, Len(s))

\* the bullet moved without b.life--
MoveBullet_NoAging(b) == [b EXCEPT !.x = @ + b.vx, !.y = @ + b.vy]

\* b.x += b.vx; b.y += b.vy; b.life--
MoveBullet(b) == [b EXCEPT !.x = @ + b.vx, !.y = @ + b.vy, !.life = @ - 1]

\* the splice test without its b.life <= 0 disjunct
BulletGone_BoundsOnly(b, cam) ==
  \/ b.x < cam.x
  \/ b.x > cam.x + CANVAS_WIDTH
  \/ b.y < 0
  \/ b.y > CANVAS_HEIGHT

\* the test that splices a bullet out of the collection
BulletGone(b, cam) ==
  \/ b.life <= 0
  \/ b.x < cam.x
  \/ b.x > cam.x + CANVAS_WIDTH
  \/ b.y < 0
  \/ b.y > CANVAS_HEIGHT

\* the enemies a bullet overlaps, the dead ones included
Targets_DeadIncluded(b, es) == {j \in 1..Len(es) : checkCollision(b, es[j])}

\* the indices of the non-dead enemies a bullet overlaps
Targets(b, es) == {j \in 1..Len(es) : ~es[j].isDead /\ checkCollision(b, es[j])}

\* the last matching enemy of the collection instead of the first
MinOf_Last(S) == CHOOSE m \in S : \A n \in S : m >= n

MinOf(S) == CHOOSE m \in S : \A n \in S : m <= n

\* HitEnemy without the setGameState call of the boss kill
HitEnemy_NoVictory(w, i) ==
  LET b == w.bullets[i]
      T == Targets(b, w.enemies)
  IN IF T = {} THEN w
     ELSE LET j == MinOf(T)
              e == w.enemies[j]
              hp1 == e.hp - 1
              sc1 == w.player.score + (IF e.type = "boss" THEN 1000 ELSE 100)
          IN IF hp1 <= 0
             THEN [w EXCEPT
                     !.enemies[j].hp = hp1,
                     !.enemies[j].isDead = TRUE,
                     !.bullets[i].life = 0,
                     !.player.score = sc1,
                     !.score = sc1,
                     !.ev.hits = @ + 1,
                     !.ev.kills = Append(@, j)]
             ELSE [w EXCEPT
                     !.enemies[j].hp = hp1,
                     !.bullets[i].life = 0,
                     !.ev.hits = @ + 1]

\* a player bullet (at index i, already moved) against the enemies: the first
\* enemy in collection order that it overlaps
HitEnemy(w, i) ==
  LET b == w.bullets[i]
      T == Targets(b, w.enemies)
  IN IF T = {} THEN w
     ELSE LET j == MinOf(T)
              e == w.enemies[j]
              hp1 == e.hp - 1
              gain == IF e.type = "boss" THEN 1000 ELSE 100
              sc1 == w.player.score + gain
          IN IF hp1 <= 0
             THEN [w EXCEPT
                     !.enemies[j].hp = hp1,
                     !.enemies[j].isDead = TRUE,
                     !.bullets[i].life = 0,
                     !.player.score = sc1,
                     !.score = sc1,
                     !.ev.hits = @ + 1,
                     !.ev.kills = Append(@, j),
                     !.ev.requests = IF e.type = "boss" THEN Append(@, "VICTORY") ELSE @]
             ELSE [w EXCEPT
                     !.enemies[j].hp = hp1,
                     !.bullets[i].life = 0,
                     !.ev.hits = @ + 1]

\* an enemy bullet (at index i, already moved) against the player
HitPlayer(w, i) ==
  IF checkCollision(w.bullets[i], w.player) /\ w.player.invincibleTimer <= 0
  THEN LET w1 == handlePlayerDeath(w)
       IN [w1 EXCEPT !.bullets[i].life = 0, !.ev.hits = @ + 1]
  ELSE w

\* the body of the bullet loop for index i
BulletStep(w, i) ==
  LET b == MoveBullet(w.bullets[i])
      w1 == [w EXCEPT !.bullets[i] = b]
  IN IF BulletGone(b, w.camera)
     THEN [w EXCEPT !.bullets = RemoveAt(@, i)]
     ELSE IF b.owner = "player" THEN HitEnemy(w1, i) ELSE HitPlayer(w1, i)

\* what the turn of bullet i did to the enemies (w before, w1 after the
\* turn): nothing to record if no enemy's hp changed
BulletHit(w, w1, i) ==
  LET b == MoveBullet(w.bullets[i])
      J == 1..Len(w.enemies)
      changed == {j \in J : w1.enemies[j].hp # w.enemies[j].hp}
  IN IF changed = {} THEN << >>
     ELSE << [bullet |-> i,
              owner |-> b.owner,
              life |-> b.life,
              damaged |-> changed,
              drop |-> {w.enemies[j].hp - w1.enemies[j].hp : j \in changed},
              overlapped |-> {j \in J : checkCollision(b, w.enemies[j])},
              dead |-> {j \in J : w.enemies[j].isDead},
              hpBefore |-> [j \in J |-> w.enemies[j].hp],
              deadAfter |-> {j \in J : w1.enemies[j].isDead},
              spent |-> Len(w1.bullets) = Len(w.bullets) /\ w1.bullets[i].life = 0,
              gain |-> w1.player.score - w.player.score] >>

\* a player bullet that stays in the collection in its turn and overlaps
\* dead enemies only: its life after the turn
BulletPass(w, w1, i) ==
  LET b == MoveBullet(w.bullets[i])
      J == 1..Len(w.enemies)
      over == {j \in J : checkCollision(b, w.enemies[j])}
  IN IF /\ b.owner = "player"
        /\ Len(w1.bullets) = Len(w.bullets)
        /\ over # {}
        /\ \A j \in over : w.enemies[j].isDead
     THEN << [bullet |-> i, over |-> over, life |-> b.life,
              lifeAfter |-> w1.bullets[i].life] >>
     ELSE << >>

\* the turn of bullet i in the loop (w before, w1 after): its life before,
\* whether it was spliced out, and its life after if it was not
BulletTurn(w, w1, i) ==
  LET removed == Len(w1.bullets) < Len(w.bullets)
  IN [owner |-> w.bullets[i].owner,
      before |-> w.bullets[i].life,
      removed |-> removed,
      after |-> IF removed THEN 0 ELSE w1.bullets[i].life]

\* for (let i = bullets.length - 1; i >= 0; i--)
RECURSIVE BulletsLoop(_, _)
BulletsLoop(w, i) ==
  IF i < 1 THEN w
  ELSE LET w1 == BulletStep(w, i)
       IN BulletsLoop([w1 EXCEPT !.ev.bulletHits = @ \o BulletHit(w, w1, i),
                                 !.ev.passed = @ \o BulletPass(w, w1, i),
                                 !.ev.turns = Append(@, BulletTurn(w, w1, i))], i - 1)

BulletsUpdate(w) == BulletsLoop(w, Len(w.bullets))

\* ------------------------------------------------------------------------
\* update: enemies
\* ------------------------------------------------------------------------
ActivationDistance == 600

\* Floor clamp for enemies: every overlapping platform, in order
ClampOn(e, plat) ==
  IF checkCollision(e, plat) THEN [e EXCEPT !.y = plat.y - e.height] ELSE e

RECURSIVE FloorClamp(_, _, _)
FloorClamp(e, plats, i) ==
  IF i > Len(plats) THEN e
  ELSE FloorClamp(ClampOn(e, plats[i]), plats, i + 1)

RunnerMove(e, p, plats) ==
  LET distToPlayer == p.x - e.x
      e1 == IF Abs(distToPlayer) > 10
            THEN [e EXCEPT !.vx = (IF distToPlayer > 0 THEN 1 ELSE -1) * ENEMY_SPEED,
                           !.direction = IF distToPlayer > 0 THEN Right ELSE Left]
            ELSE e
      e2 == [e1 EXCEPT !.x = @ + e1.vx, !.y = @ + 10]
  IN FloorClamp(e2, plats, 1)

EnemyBullet(e, p) ==
  LET dy == (p.y + p.height \div 2) - (e.y + 10)
      dx == (p.x + p.width \div 2) - e.x
      speed == BULLET_SPEED \div 2            \* BULLET_SPEED * 0.5
  IN [x |-> e.x + e.width \div 2, y |-> e.y + 10,
      width |-> 8, height |-> 8,
      vx |-> AimComponent(dx, dx, dy, speed),
      vy |-> AimComponent(dy, dx, dy, speed),
      owner |-> "enemy", life |-> 200]

\* the shooting logic with a cooldown that is let run below 0: it fires
\* when the counter has passed 0
EnemyShoot_LateReset(w, j) ==
  LET e == w.enemies[j]
      cd == e.shootCooldown - 1
  IN IF cd < 0
     THEN [w EXCEPT !.bullets = Append(@, EnemyBullet(e, w.player)),
                    !.enemies[j].shootCooldown = 120,
                    !.ev.fired = @ + 1]
     ELSE [w EXCEPT !.enemies[j].shootCooldown = cd]

\* Shooting Logic (Turrets and Boss) of enemy j
EnemyShoot(w, j) ==
  LET e == w.enemies[j]
      cd == e.shootCooldown - 1
  IN IF cd <= 0
     THEN [w EXCEPT !.bullets = Append(@, EnemyBullet(e, w.player)),
                    !.enemies[j].shootCooldown = 120,
                    !.ev.fired = @ + 1]
     ELSE [w EXCEPT !.enemies[j].shootCooldown = cd]

\* the AI without the activation distance
EnemyAI_AlwaysActive(w, j, plats) ==
  LET e == w.enemies[j]
  IN IF e.type = "runner"
     THEN [w EXCEPT !.enemies[j] = RunnerMove(e, w.player, plats)]
     ELSE EnemyShoot(w, j)

EnemyAI(w, j, plats) ==
  LET e == w.enemies[j]
      distToPlayer == w.player.x - e.x
  IN IF Abs(distToPlayer) < ActivationDistance
     THEN IF e.type = "runner"
          THEN [w EXCEPT !.enemies[j] = RunnerMove(e, w.player, plats)]
          ELSE EnemyShoot(w, j)
     ELSE w

\* Collision with Player (Touch Damage)
TouchDamage(w, j) ==
  LET e == w.enemies[j]
  IN IF checkCollision(w.player, e) /\ w.player.invincibleTimer <= 0 /\ ~e.isDead
     THEN handlePlayerDeath(w)
     ELSE w

\* the body of the enemy loop without its first line (if (enemy.isDead) continue)
EnemyStep_DeadIncluded(w, j, plats) ==
  TouchDamage(EnemyAI(w, j, plats), j)

\* the body of the enemy loop for index j
EnemyStep(w, j, plats) ==
  IF w.enemies[j].isDead THEN w
  ELSE TouchDamage(EnemyAI(w, j, plats), j)

\* the turn of enemy j (w before, w1 after the turn) added to the record
\* of the step
EnemyTurn(w, w1, j) ==
  LET e == w.enemies[j]
      pushed == SubSeq(w1.bullets, Len(w.bullets) + 1, Len(w1.bullets))
      isActive == ~e.isDead /\ Abs(w.player.x - e.x) < ActivationDistance
      since == w.ev.activeSince[j]
  IN [w1 EXCEPT
        !.ev.dist[j] = Abs(w.player.x - e.x),
        !.ev.active = IF isActive THEN @ \cup {j} ELSE @,
        !.ev.enemyShots = @ \o [k \in 1..Len(pushed) |->
                                  [enemy |-> j, bullet |-> pushed[k], since |-> since]],
        !.ev.activeSince[j] = IF pushed # << >> THEN 0
                              ELSE IF isActive /\ since < 120 THEN since + 1
                              ELSE since,
        !.ev.touches = IF Len(w1.ev.deaths) > Len(w.ev.deaths)
                       THEN Append(@, j) ELSE @]

RECURSIVE EnemiesLoop(_, _, _)
EnemiesLoop(w, j, plats) ==
  IF j > Len(w.enemies) THEN w
  ELSE EnemiesLoop(EnemyTurn(w, EnemyStep(w, j, plats), j), j + 1, plats)

EnemiesUpdate(w, plats) == EnemiesLoop(w, 1, plats)

\* ------------------------------------------------------------------------
\* update: camera, invincibility
\* ------------------------------------------------------------------------
\* the camera put at the player's offset whether or not the player is ahead
CameraFollow_Always(cam, p) ==
  LET x1 == p.x - CAMERA_OFFSET_X
  IN [x |-> IF x1 > LEVEL_LENGTH - CANVAS_WIDTH THEN LEVEL_LENGTH - CANVAS_WIDTH ELSE x1]

CameraFollow(cam, p) ==
  LET x1 == IF p.x > cam.x + CAMERA_OFFSET_X THEN p.x - CAMERA_OFFSET_X ELSE cam.x
  IN [x |-> IF x1 > LEVEL_LENGTH - CANVAS_WIDTH THEN LEVEL_LENGTH - CANVAS_WIDTH ELSE x1]

\* the countdown running at twice the rate
Invincibility_Fast(p) ==
  IF p.invincibleTimer > 0
  THEN [p EXCEPT !.invincibleTimer = IF @ > 1 THEN @ - 2 ELSE 0]
  ELSE p

Invincibility(p) ==
  IF p.invincibleTimer > 0 THEN [p EXCEPT !.invincibleTimer = @ - 1] ELSE p

\* ------------------------------------------------------------------------
\* update, from the gameState guard to the invincibility countdown
\* ------------------------------------------------------------------------
\* the player stands on a platform: bottom edge on its top, overlapping it
\* horizontally
OnPlatform(p, plats) ==
  \E i \in 1..Len(plats) :
     /\ p.y + p.height = plats[i].y
     /\ p.x < plats[i].x + plats[i].width
     /\ p.x + p.width > plats[i].x

PlayerPhysics(p, inp, cam) ==
  Integrate(Jumping(VerticalFacing(HorizontalMovement(p, inp), inp), inp), cam)

\* the platforms whose top the player p stands on
StoodOn(p, plats) ==
  {i \in 1..Len(plats) :
     /\ p.y + p.height = plats[i].y
     /\ p.x < plats[i].x + plats[i].width
     /\ p.x + p.width > plats[i].x}

StepWorld(w0, inp, plats) ==
  LET pIn == w0.player
      jk == JumpKind(pIn, inp)
      pInt == PlayerPhysics(pIn, inp, w0.camera)
      pCol == CollisionDetection(pInt, plats)
      e1 == [NoEvents EXCEPT
               !.activeSince = w0.ev.activeSince,
               !.run = [x0 |-> pIn.x, facing0 |-> pIn.direction, cameraX |-> w0.camera.x,
                        vx |-> pInt.vx, facing |-> pInt.direction, x |-> pInt.x],
               !.stepped = TRUE,
               !.hpStart = pIn.hp,
               !.scoreStart = pIn.score,
               !.startOnPlatform = OnPlatform(pIn, plats),
               !.jump = jk,
               !.afterInt = [x |-> pInt.x, y |-> pInt.y, vy |-> pInt.vy],
               !.afterCol = [y |-> pCol.y, vy |-> pCol.vy, isGrounded |-> pCol.isGrounded]]
      w1 == PitfallDeath([w0 EXCEPT !.player = pCol, !.ev = e1])
      s2 == Shooting(w1, inp)
      new == SubSeq(s2.bullets, Len(w1.bullets) + 1, Len(s2.bullets))
      w2 == [s2 EXCEPT
               !.ev.shots = new,
               !.ev.aim = [direction |-> w1.player.direction,
                           isGrounded |-> w1.player.isGrounded,
                           cooldown |-> w1.player.shootCooldown],
               !.ev.sincePrev = w0.ev.sinceShot,
               !.ev.sinceShot = IF new # << >> THEN 0
                                ELSE IF w0.ev.sinceShot < SHOOT_COOLDOWN
                                     THEN w0.ev.sinceShot + 1
                                     ELSE SHOOT_COOLDOWN]
      w3 == BulletsUpdate(w2)
      w4 == EnemiesUpdate(w3, plats)
      cam1 == CameraFollow(w4.camera, w4.player)
      tracked == IF jk = "drop" THEN StoodOn(pIn, plats) ELSE w0.ev.dropFrom
      landed == IF pCol.isGrounded THEN StoodOn(pCol, plats) ELSE {}
  IN [w4 EXCEPT
        !.camera = cam1,
        !.player = Invincibility(w4.player),
        !.ev.relanded = tracked \cap landed,
        !.ev.dropFrom = {i \in tracked : checkCollision(w4.player, plats[i])},
        !.ev.sinceLoss = IF w4.player.hp < pIn.hp THEN 0
                         ELSE IF w0.ev.sinceLoss < 180 THEN w0.ev.sinceLoss + 1
                         ELSE 180]

\* the gameState the App holds after the setGameState calls of a step
Committed(gs, requests) ==
  IF requests = << >> THEN gs ELSE requests[Len(requests)]

\* ------------------------------------------------------------------------
\* Actions
\* ------------------------------------------------------------------------
\* initLevel without the reset of playerRef
initLevel_StalePlayer ==
  /\ platforms' = LevelPlatforms
  /\ player' = player
  /\ bullets' = << >>
  /\ enemies' = LevelEnemies
  /\ camera' = [x |-> 0]
  /\ tick' = 0

\* initLevel, as run by the loop driver effect whenever gameState is MENU
initLevel ==
  /\ platforms' = LevelPlatforms
  /\ player' = InitialPlayer
  /\ bullets' = << >>
  /\ enemies' = LevelEnemies
  /\ camera' = [x |-> 0]
  /\ tick' = 0

\* window keydown listener
handleKeyDown(k) ==
  /\ inputs' = [inputs EXCEPT ![k] = TRUE]
  /\ jumpsThisPress' = IF k = "jump" /\ ~inputs.jump THEN 0 ELSE jumpsThisPress
  /\ UNCHANGED << gameState, score, lives, player, bullets, enemies, platforms,
                  camera, tick, ev >>

\* window keyup listener
handleKeyUp(k) ==
  /\ inputs' = [inputs EXCEPT ![k] = FALSE]
  /\ jumpsThisPress' = IF k = "jump" THEN 0 ELSE jumpsThisPress
  /\ UNCHANGED << gameState, score, lives, player, bullets, enemies, platforms,
                  camera, tick, ev >>

\* one animation frame with the inputs inp: update, then React commits the
\* last setGameState, setScore and setLives of the frame
Frame(inp) ==
  /\ gameState = "PLAYING"
  /\ \E w \in {StepWorld(World(player, bullets, enemies, camera, score, lives, ev),
                         inp, platforms)} :
        /\ player' = w.player
        /\ bullets' = w.bullets
        /\ enemies' = w.enemies
        /\ camera' = w.camera
        /\ score' = w.score
        /\ lives' = w.lives
        /\ ev' = w.ev
        /\ gameState' = Committed(gameState, w.ev.requests)
  /\ tick' = tick + 1
  /\ UNCHANGED platforms

\* The ticks explored: m frames from initLevel, RunnerFrames from the runner
\* checkpoint (tick 45), PitFrames from the pit checkpoint (tick 230),
\* BossFrames from the boss checkpoint (tick 2110).
RunnerTick == 45
PitTick == 230
BossTick == 2110
AmbushTick == 1304
PlatformTick == 306

Explored(m) ==
  (0 .. m - 1) \cup (RunnerTick .. RunnerTick + RunnerFrames - 1)
               \cup (PitTick .. PitTick + PitFrames - 1)
               \cup (BossTick .. BossTick + BossFrames - 1)
               \cup (AmbushTick .. AmbushTick + AmbushFrames - 1)
               \cup (PlatformTick .. PlatformTick + PlatformFrames - 1)

update(m) ==
  /\ tick \in Explored(m)
  /\ Frame(inputs)
  /\ jumpsThisPress' = IF ev'.jump = "jump" THEN jumpsThisPress + 1 ELSE jumpsThisPress
  /\ UNCHANGED inputs

\* handleStart without its setScore(0) and setLives(3)
handleStart_KeepCounters ==
  /\ gameState = "MENU"
  /\ gameState' = "PLAYING"
  /\ UNCHANGED << score, lives, player, bullets, enemies, platforms, camera, inputs,
                  tick, ev, jumpsThisPress >>

\* App.handleStart (the PRESS START button of the menu)
handleStart ==
  /\ gameState = "MENU"
  /\ score' = 0
  /\ lives' = 3
  /\ gameState' = "PLAYING"
  /\ UNCHANGED << player, bullets, enemies, platforms, camera, inputs, tick, ev,
                  jumpsThisPress >>

\* App.handleRestart (TRY AGAIN / PLAY AGAIN), and the effect it triggers
handleRestart ==
  /\ gameState \in {"GAME_OVER", "VICTORY"}
  /\ gameState' = "MENU"
  /\ initLevel
  /\ ev' = NoEvents
  /\ UNCHANGED << score, lives, inputs, jumpsThisPress >>

\* ------------------------------------------------------------------------
\* The game from the mount of the components
\* ------------------------------------------------------------------------
InitMount ==
  /\ gameState = "MENU"
  /\ score = 0
  /\ lives = 3
  /\ player = InitialPlayer
  /\ bullets = << >>
  /\ enemies = LevelEnemies
  /\ platforms = LevelPlatforms
  /\ camera = [x |-> 0]
  /\ inputs = InitialInputs
  /\ tick = 0
  /\ ev = NoEvents
  /\ jumpsThisPress = 0

\* ------------------------------------------------------------------------
\* A scripted play from the mount to the boss.  It runs right, firing, and
\* jumps the four gaps; in front of the boss it jumps over the boss's
\* bullets and fires until the boss has 1 hp left; from tick 1753 it walks
\* into the boss and stands in it (x = 3520), losing two lives to its touch.
\* ------------------------------------------------------------------------
ReplayJumpZone(x) ==
  \/ (x >= 790 /\ x <= 799)
  \/ (x >= 1190 /\ x <= 1199)
  \/ (x >= 1890 /\ x <= 1899)
  \/ (x >= 2190 /\ x <= 2199)

ReplayDodge ==
  \E i \in 1..Len(bullets) :
     /\ bullets[i].owner = "enemy"
     /\ player.x > 2900
     /\ bullets[i].x > player.x
     /\ bullets[i].x - player.x < 60

ReplayInputs ==
  [left |-> FALSE,
   right |-> player.x < 3400 \/ (tick >= 1753 /\ player.x < 3520),
   up |-> FALSE,
   down |-> FALSE,
   jump |-> player.isGrounded /\ (ReplayJumpZone(player.x) \/ (tick < 1753 /\ ReplayDodge)),
   shoot |-> enemies[9].hp > 1]

\* the key events that set the inputs of the script, then one frame
ReplayFrame ==
  /\ Frame(ReplayInputs)
  /\ inputs' = ReplayInputs
  /\ jumpsThisPress' = 0

ReplayNext ==
  \/ handleStart
  \/ ReplayFrame

SpecReplay == InitMount /\ [][ReplayNext]_vars

\* The state of the scripted play at tick 2110: the player stands in the
\* boss with 1 life and 28 ticks of invincibility left, the boss has 1 hp
\* and fires in 24 ticks; the six runners are dead where they were shot.
DeadRunner(x) ==
  [spawnEnemy(x, "runner", 0) EXCEPT !.hp = 0, !.isDead = TRUE, !.vx = -ENEMY_SPEED]

BossCheckpoint ==
  /\ gameState = "PLAYING"
  /\ score = 600
  /\ lives = 1
  /\ player = [InitialPlayer EXCEPT !.x = 3520, !.y = 512, !.isGrounded = TRUE,
                                    !.hp = 1, !.score = 600, !.invincibleTimer = 28]
  /\ bullets = << >>
  /\ enemies = << DeadRunner(486),
                  [spawnEnemy(1000, "turret", 350) EXCEPT !.shootCooldown = 82],
                  DeadRunner(1158), DeadRunner(1452),
                  [spawnEnemy(1700, "turret", 300) EXCEPT !.shootCooldown = 81],
                  DeadRunner(2146), DeadRunner(2456), DeadRunner(2752),
                  [spawnEnemy(3500, "boss", CANVAS_HEIGHT - 120) EXCEPT
                      !.hp = 1, !.shootCooldown = 24] >>
  /\ platforms = LevelPlatforms
  /\ camera = [x |-> 3200]
  /\ inputs = InitialInputs
  /\ tick = BossTick
  /\ ev = [NoEvents EXCEPT
             !.stepped = TRUE, !.hpStart = 1, !.scoreStart = 600,
             !.startOnPlatform = TRUE,
             !.aim = [direction |-> Right, isGrounded |-> TRUE, cooldown |-> 0],
             !.active = {9}, !.sinceLoss = 151,
             !.dist = << 3034, 2520, 2362, 2068, 1820, 1374, 1064, 768, 20 >>,
             !.activeSince = << 120, 38, 120, 120, 39, 120, 120, 120, 96 >>,
             !.run = [x0 |-> 3520, facing0 |-> Right, cameraX |-> 3200,
                      vx |-> 0, facing |-> Right, x |-> 3520],
             !.afterInt = [x |-> 3520, y |-> 513, vy |-> 1],
             !.afterCol = [y |-> 512, vy |-> 0, isGrounded |-> TRUE]]
  /\ jumpsThisPress = 0

\* The state of the scripted play at tick 45: the player runs on the first
\* ground segment with the fire key held, three of its bullets are in
\* flight, and the first runner comes toward the lowest of them.
RunnerCheckpoint ==
  /\ gameState = "PLAYING"
  /\ score = 0
  /\ lives = 3
  /\ player = [InitialPlayer EXCEPT !.x = 235, !.y = 512, !.vx = PLAYER_SPEED,
                                    !.isGrounded = TRUE, !.shootCooldown = 1]
  /\ bullets = << [x |-> 565, y |-> 125, width |-> 8, height |-> 8, vx |-> 10,
                   vy |-> 0, owner |-> "player", life |-> 55],
                  [x |-> 460, y |-> 260, width |-> 8, height |-> 8, vx |-> 10,
                   vy |-> 0, owner |-> "player", life |-> 70],
                  [x |-> 355, y |-> 536, width |-> 8, height |-> 8, vx |-> 10,
                   vy |-> 0, owner |-> "player", life |-> 85] >>
  /\ enemies = [LevelEnemies EXCEPT ![1].x = 510, ![1].vx = -ENEMY_SPEED]
  /\ platforms = LevelPlatforms
  /\ camera = [x |-> 0]
  /\ inputs = [InitialInputs EXCEPT !.right = TRUE, !.shoot = TRUE]
  /\ tick = RunnerTick
  /\ ev = [NoEvents EXCEPT
             !.stepped = TRUE, !.hpStart = 3, !.scoreStart = 0,
             !.startOnPlatform = TRUE, !.sinceShot = 14, !.sincePrev = 13,
             !.aim = [direction |-> Right, isGrounded |-> TRUE, cooldown |-> 2],
             !.active = {1},
             !.turns = << [owner |-> "player", before |-> 86, removed |-> FALSE, after |-> 85],
                          [owner |-> "player", before |-> 71, removed |-> FALSE, after |-> 70],
                          [owner |-> "player", before |-> 56, removed |-> FALSE, after |-> 55] >>,
             !.dist = << 277, 765, 965, 1265, 1465, 1965, 2265, 2565, 3265 >>,
             !.run = [x0 |-> 232, facing0 |-> Right, cameraX |-> 0,
                      vx |-> 3, facing |-> Right, x |-> 235],
             !.afterInt = [x |-> 235, y |-> 513, vy |-> 1],
             !.afterCol = [y |-> 512, vy |-> 0, isGrounded |-> TRUE]]
  /\ jumpsThisPress = 0

\* SpecReplay reaches both checkpoints: TLC finds these invariants violated.
ReplayNeverAtBoss == ~BossCheckpoint

ReplayNeverAtRunner == ~RunnerCheckpoint

\* ------------------------------------------------------------------------
\* A second scripted play: the right key is held from the mount, nothing
\* else.  The first runner touches the player at tick 97; the player
\* respawns, walks on and reaches the end of the first ground segment.
\* ------------------------------------------------------------------------
WalkInputs == [InitialInputs EXCEPT !.right = TRUE]

WalkFrame ==
  /\ Frame(WalkInputs)
  /\ inputs' = WalkInputs
  /\ jumpsThisPress' = 0

WalkNext ==
  \/ handleStart
  \/ WalkFrame

SpecWalk == InitMount /\ [][WalkNext]_vars

\* The state of the second play at tick 230: the player is 10 pixels from
\* the first gap with 2 lives and 45 ticks of invincibility left; the first
\* runner follows it, the third comes toward it, and a bullet of the first
\* turret is in flight.
PitCheckpoint ==
  /\ gameState = "PLAYING"
  /\ score = 0
  /\ lives = 2
  /\ player = [InitialPlayer EXCEPT !.x = 790, !.y = 512, !.vx = PLAYER_SPEED,
                                    !.isGrounded = TRUE, !.hp = 2,
                                    !.invincibleTimer = 45]
  /\ bullets = << [x |-> 985, y |-> 387, width |-> 8, height |-> 8, vx |-> -3,
                   vy |-> 3, owner |-> "enemy", life |-> 191] >>
  /\ enemies = [LevelEnemies EXCEPT
                  ![1].x = 652, ![1].vx = ENEMY_SPEED, ![1].direction = Right,
                  ![2].shootCooldown = 111,
                  ![3].x = 1072, ![3].vx = -ENEMY_SPEED]
  /\ platforms = LevelPlatforms
  /\ camera = [x |-> 490]
  /\ inputs = WalkInputs
  /\ tick = PitTick
  /\ ev = [NoEvents EXCEPT
             !.stepped = TRUE, !.hpStart = 2, !.scoreStart = 0,
             !.startOnPlatform = TRUE,
             !.aim = [direction |-> Right, isGrounded |-> TRUE, cooldown |-> 0],
             !.active = {1, 2, 3}, !.sinceLoss = 134,
             !.turns = << [owner |-> "enemy", before |-> 192, removed |-> FALSE, after |-> 191] >>,
             !.dist = << 140, 210, 284, 710, 910, 1410, 1710, 2010, 2710 >>,
             !.activeSince = << 120, 9, 120, 120, 120, 120, 120, 120, 120 >>,
             !.run = [x0 |-> 787, facing0 |-> Right, cameraX |-> 487,
                      vx |-> 3, facing |-> Right, x |-> 790],
             !.afterInt = [x |-> 790, y |-> 513, vy |-> 1],
             !.afterCol = [y |-> 512, vy |-> 0, isGrounded |-> TRUE]]
  /\ jumpsThisPress = 0

\* SpecWalk reaches the pit checkpoint: TLC finds this invariant violated.
WalkNeverAtPit == ~PitCheckpoint

\* The state of the second play at tick 306: the player fell into the first
\* gap at tick 276, was respawned at the top with its last life and has
\* just landed on the pass-through platform at (950, 400), inside the
\* first turret, with 149 ticks of invincibility left.
PlatformCheckpoint ==
  /\ gameState = "PLAYING"
  /\ score = 0
  /\ lives = 1
  /\ player = [InitialPlayer EXCEPT !.x = 1018, !.y = 352, !.vx = PLAYER_SPEED,
                                    !.isGrounded = TRUE, !.hp = 1,
                                    !.invincibleTimer = 149]
  /\ bullets = << >>
  /\ enemies = [LevelEnemies EXCEPT
                  ![1].x = 804, ![1].y = 542, ![1].vx = ENEMY_SPEED, ![1].direction = Right,
                  ![2].shootCooldown = 35,
                  ![3].x = 992, ![3].vx = ENEMY_SPEED, ![3].direction = Right,
                  ![4].x = 1420, ![4].vx = -ENEMY_SPEED]
  /\ platforms = LevelPlatforms
  /\ camera = [x |-> 718]
  /\ inputs = WalkInputs
  /\ tick = PlatformTick
  /\ ev = [NoEvents EXCEPT
             !.stepped = TRUE, !.hpStart = 1, !.scoreStart = 0,
             !.startOnPlatform = FALSE,
             !.aim = [direction |-> Right, isGrounded |-> TRUE, cooldown |-> 0],
             !.active = {1, 2, 3, 4}, !.sinceLoss = 30,
             !.dist = << 216, 18, 28, 404, 682, 1182, 1482, 1782, 2482 >>,
             !.activeSince = << 120, 85, 120, 120, 120, 120, 120, 120, 120 >>,
             !.run = [x0 |-> 1015, facing0 |-> Right, cameraX |-> 715,
                      vx |-> 3, facing |-> Right, x |-> 1018],
             !.afterInt = [x |-> 1018, y |-> 365, vy |-> 30],
             !.afterCol = [y |-> 352, vy |-> 0, isGrounded |-> TRUE]]
  /\ jumpsThisPress = 0

WalkNeverAtPlatform == ~PlatformCheckpoint

\* ------------------------------------------------------------------------
\* A third scripted play: as the first up to the kill of the seventh
\* enemy, then without firing.  The last runner touches the player, follows
\* it to the boss and touches it again there; the player stands 4 pixels
\* from the boss, invincible, with the runner on it.
\* ------------------------------------------------------------------------
AmbushInputs ==
  [left |-> FALSE,
   right |-> player.x < 3472,
   up |-> FALSE,
   down |-> FALSE,
   jump |-> player.isGrounded /\ (ReplayJumpZone(player.x) \/ ReplayDodge),
   shoot |-> player.score < 500]

AmbushFrame ==
  /\ tick < AmbushTick
  /\ Frame(AmbushInputs)
  /\ inputs' = AmbushInputs
  /\ jumpsThisPress' = 0

AmbushNext ==
  \/ handleStart
  \/ AmbushFrame

SpecAmbush == InitMount /\ [][AmbushNext]_vars

\* The state of the third play at tick 1304: the player has just landed
\* from its respawn with one life and 144 ticks of invincibility, the last
\* runner is at its x, the boss 28 pixels to the right, and a bullet of the
\* boss flies upward.
AmbushCheckpoint ==
  /\ gameState = "PLAYING"
  /\ score = 500
  /\ lives = 1
  /\ player = [InitialPlayer EXCEPT !.x = 3472, !.y = 512, !.isGrounded = TRUE,
                                    !.hp = 1, !.score = 500, !.invincibleTimer = 144]
  /\ bullets = << [x |-> 3530, y |-> 440, width |-> 8, height |-> 8,
                   vx |-> 0, vy |-> -5, owner |-> "enemy", life |-> 190] >>
  /\ enemies = << DeadRunner(486),
                  [spawnEnemy(1000, "turret", 350) EXCEPT !.shootCooldown = 82],
                  DeadRunner(1158), DeadRunner(1452),
                  [spawnEnemy(1700, "turret", 300) EXCEPT !.shootCooldown = 81],
                  DeadRunner(2146), DeadRunner(2456),
                  [spawnEnemy(2800, "runner", 0) EXCEPT
                      !.x = 3472, !.vx = ENEMY_SPEED, !.direction = Right],
                  [spawnEnemy(3500, "boss", CANVAS_HEIGHT - 120) EXCEPT
                      !.shootCooldown = 110] >>
  /\ platforms = LevelPlatforms
  /\ camera = [x |-> 3172]
  /\ inputs = InitialInputs
  /\ tick = AmbushTick
  /\ ev = [NoEvents EXCEPT
             !.stepped = TRUE, !.hpStart = 1, !.scoreStart = 500,
             !.startOnPlatform = FALSE,
             !.aim = [direction |-> Right, isGrounded |-> TRUE, cooldown |-> 0],
             !.active = {8, 9}, !.sinceLoss = 35,
             !.turns = << [owner |-> "enemy", before |-> 191, removed |-> FALSE, after |-> 190] >>,
             !.dist = << 2986, 2472, 2314, 2020, 1772, 1326, 1016, 2, 28 >>,
             !.activeSince = << 120, 38, 120, 120, 39, 120, 120, 120, 10 >>,
             !.run = [x0 |-> 3472, facing0 |-> Right, cameraX |-> 3172,
                      vx |-> 0, facing |-> Right, x |-> 3472],
             !.afterInt = [x |-> 3472, y |-> 530, vy |-> 35],
             !.afterCol = [y |-> 512, vy |-> 0, isGrounded |-> TRUE]]
  /\ jumpsThisPress = 0

AmbushNeverAtCheckpoint == ~AmbushCheckpoint

\* ------------------------------------------------------------------------
\* Specifications: the game under the key events of one key, from the mount
\* and from the checkpoints of the scripted play
\* ------------------------------------------------------------------------
NextKeys(K, m) ==
  \/ \E k \in K : handleKeyDown(k)
  \/ \E k \in K : handleKeyUp(k)
  \/ update(m)
  \/ handleStart
  \/ handleRestart

\* the right key
Init == InitMount \/ PitCheckpoint \/ BossCheckpoint

Next == NextKeys({"right"}, MaxFrames)

Spec == Init /\ [][Next]_vars

\* the fire key
InitShoot == RunnerCheckpoint \/ BossCheckpoint \/ AmbushCheckpoint

NextShoot == NextKeys({"shoot"}, ShootFrames)

SpecShoot == InitShoot /\ [][NextShoot]_vars

\* the jump key
InitJump == InitMount \/ PitCheckpoint \/ BossCheckpoint

NextJump == NextKeys({"jump"}, MaxFrames)

SpecJump == InitJump /\ [][NextJump]_vars

\* The game under the jump and down keys, from the mount and from the
\* platform checkpoint (where the right key is held).
InitDrop == InitMount \/ PlatformCheckpoint

NextDrop ==
  \/ \E k \in {"jump", "down"} : handleKeyDown(k)
  \/ \E k \in {"jump", "down"} : handleKeyUp(k)
  \/ update(DropFrames)
  \/ handleStart

SpecDrop == InitDrop /\ [][NextDrop]_vars

\* ------------------------------------------------------------------------
\* The game played with one combination of keys held throughout: any of the
\* 64 combinations is pressed at the menu (key events before PRESS START),
\* then the game is started and run for KeysFrames frames.
\* ------------------------------------------------------------------------
KeysFrames == 50

InputCombinations ==
  [left : BOOLEAN, right : BOOLEAN, up : BOOLEAN, down : BOOLEAN,
   jump : BOOLEAN, shoot : BOOLEAN]

InitKeys ==
  /\ gameState = "MENU"
  /\ score = 0
  /\ lives = 3
  /\ player = InitialPlayer
  /\ bullets = << >>
  /\ enemies = LevelEnemies
  /\ platforms = LevelPlatforms
  /\ camera = [x |-> 0]
  /\ inputs \in InputCombinations
  /\ tick = 0
  /\ ev = NoEvents
  /\ jumpsThisPress = 0

NextKeysHeld ==
  \/ handleStart
  \/ tick < KeysFrames /\ update(KeysFrames)

SpecKeys == InitKeys /\ [][NextKeysHeld]_vars

\* The game with the right key held or not from the menu on, and the left
\* key pressed and released at any time.
InitLeft ==
  /\ InitKeys
  /\ ~inputs.up /\ ~inputs.down /\ ~inputs.jump /\ ~inputs.shoot

NextLeft ==
  \/ handleKeyDown("left")
  \/ handleKeyUp("left")
  \/ NextKeysHeld

SpecLeft == InitLeft /\ [][NextLeft]_vars

\* ------------------------------------------------------------------------
\* Properties
\* ------------------------------------------------------------------------

\* the setGameState calls of the last call of update, as a set
Requested == {ev.requests[k] : k \in 1..Len(ev.requests)}

SpentBullets == {i \in 1..Len(bullets) : bullets[i].life = 0}

\* C2 (as stated): at the end of every step the bullet collection holds no
\* bullet with life <= 0.
C2_NoSpentBulletAtStepEnd ==
  ev.stepped => \A i \in 1..Len(bullets) : bullets[i].life > 0

\* C2 (amended): at the end of every step no bullet has a negative life, and
\* the bullets with life 0 are exactly the bullets that hit an enemy or the
\* player in that step; a bullet spent by a hit is therefore spliced out by
\* the bullet pass of the next step, and one that ran out by countdown or
\* left the bounds is spliced out in the step itself.
C2_SpentBulletsAreHitsOfTheStep ==
  ev.stepped =>
     /\ \A i \in 1..Len(bullets) : bullets[i].life >= 0
     /\ Cardinality(SpentBullets) = ev.hits

\* a step in which a bullet hit, leaving it in the collection with life 0
C2_Witness ==
  /\ ev.stepped
  /\ ev.hits > 0
  /\ SpentBullets # {}

C4_HpChangesByAcceptedDamage ==
  LET d == ev.deaths
      n == Len(d)
  IN ev.stepped =>
       /\ \A i \in 1..n :
             d[i].after = IF d[i].timer > 0 THEN d[i].before ELSE d[i].before - 1
       /\ \A i \in 1..(n - 1) : d[i + 1].before = d[i].after
       /\ n > 0 => (d[1].before = ev.hpStart /\ d[n].after = player.hp)
       /\ n = 0 => player.hp = ev.hpStart

\* the player fell below the level once its invincibility had run out: the
\* pitfall call is accepted and costs one life
C4_Witness ==
  /\ ev.stepped
  /\ ev.afterCol.y > CANVAS_HEIGHT
  /\ Len(ev.deaths) = 1
  /\ ev.deaths[1].timer = 0
  /\ player.hp = ev.hpStart - 1

\* the score an enemy is worth
Worth(e) == IF e.type = "boss" THEN 1000 ELSE 100

\* the worth of the enemies es[j], j in J
RECURSIVE WorthOf(_, _)
WorthOf(es, J) ==
  IF J = {} THEN 0
  ELSE LET j == CHOOSE k \in J : TRUE
       IN Worth(es[j]) + WorthOf(es, J \ {j})

\* C5: in every step player.score grows by the worth (100 for a runner or a
\* turret, 1000 for the boss) of the enemies whose hp reached 0 in that
\* step, so it never decreases; no enemy is scored twice: at any time the
\* score is the worth of the dead enemies.
C5_ScoreIsWorthOfKills ==
  LET K == {ev.kills[i] : i \in 1..Len(ev.kills)}
      Dead == {j \in 1..Len(enemies) : enemies[j].isDead}
  IN /\ Cardinality(K) = Len(ev.kills)
     /\ player.score = ev.scoreStart + WorthOf(enemies, K)
     /\ player.score = WorthOf(enemies, Dead)
     /\ \A j \in 1..Len(enemies) : enemies[j].isDead <=> enemies[j].hp <= 0

\* a step in which a bullet killed a runner
C5_Witness ==
  /\ Len(ev.kills) = 1
  /\ enemies[ev.kills[1]].type = "runner"
  /\ player.score = ev.scoreStart + 100
  /\ gameState = "PLAYING"

\* C6: when the boss's hp has reached 0, the boss is marked dead, the step
\* that brought it there added 1000 to the score and requested VICTORY.
C6_BossKillIsVictory ==
  \A j \in 1..Len(enemies) :
     (enemies[j].type = "boss" /\ enemies[j].hp <= 0) =>
        /\ enemies[j].isDead
        /\ ev.stepped
        /\ player.score >= ev.scoreStart + 1000
        /\ "VICTORY" \in Requested

\* the step in which the boss was killed
C6_Witness ==
  /\ enemies[9].type = "boss"
  /\ enemies[9].hp = 0
  /\ gameState = "VICTORY"
  /\ player.score = ev.scoreStart + 1000

\* C7: after initLevel and after every step camera.x is within
\* [0, LEVEL_LENGTH - CANVAS_WIDTH], and a step never moves the camera back
\* (only initLevel, run on the way to the menu, puts it back to 0).
C7_CameraForwardInBounds ==
  [][ /\ camera.x >= 0 /\ camera'.x >= 0
      /\ camera.x <= LEVEL_LENGTH - CANVAS_WIDTH
      /\ camera'.x <= LEVEL_LENGTH - CANVAS_WIDTH
      /\ gameState' # "MENU" => camera'.x >= camera.x ]_vars

\* a step in which the player respawned after the camera had moved on
C7_Witness ==
  /\ ev.stepped
  /\ camera.x > 0
  /\ ev.deaths # << >>
  /\ player.y = -100
  /\ player.x >= camera.x + 50

\* the player of the last step as it was after integration and the left bound
AfterIntegration ==
  [player EXCEPT !.x = ev.afterInt.x, !.y = ev.afterInt.y, !.vy = ev.afterInt.vy]

\* the platforms the player, after integration, falls onto from above
LandingPlatforms ==
  LET p == AfterIntegration
  IN {i \in 1..Len(platforms) :
        /\ p.vy > 0
        /\ checkCollision(p, platforms[i])
        /\ p.y - p.vy + p.height <= platforms[i].y}

\* C8: if the player, after integration, has vy > 0, overlaps a platform and
\* had its bottom edge at or above the platform's top before this step's vy
\* was applied, then the collision pass leaves its bottom edge on that top,
\* vy = 0 and isGrounded true; if there is no such platform the pass leaves
\* y and vy as they were and the player is not grounded.
C8_LandingRule ==
  ev.stepped =>
     /\ \A i \in LandingPlatforms :
           /\ ev.afterCol.y + player.height = platforms[i].y
           /\ ev.afterCol.vy = 0
           /\ ev.afterCol.isGrounded
     /\ LandingPlatforms = {} =>
           /\ ev.afterCol.y = ev.afterInt.y
           /\ ev.afterCol.vy = ev.afterInt.vy
           /\ ~ev.afterCol.isGrounded

\* the player lands from a fall: it came down faster than gravity alone
\* gives from rest, and the collision pass moved it up onto the platform
C8_Witness ==
  /\ ev.stepped
  /\ LandingPlatforms # {}
  /\ ev.afterInt.vy > GRAVITY
  /\ ev.afterCol.y < ev.afterInt.y
  /\ ev.afterCol.isGrounded

\* C9: one press of the jump key (key-down to key-up) gives at most one
\* jump impulse.
C9_OneJumpPerPress == jumpsThisPress <= 1

\* C10: at the end of every step isGrounded is true only if the player
\* stands on a platform, and a jump impulse or a drop-through is applied
\* only in a step that starts with the player standing on a platform.
C10_GroundedOnlyOnPlatform ==
  ev.stepped =>
     /\ player.isGrounded => OnPlatform(player, platforms)
     /\ ev.jump # "none" => ev.startOnPlatform

\* the calls of handlePlayerDeath of the last step that were not refused
\* by the invincibility guard
AcceptedDeaths == {i \in 1..Len(ev.deaths) : ev.deaths[i].timer <= 0}

\* C11: an accepted call of handlePlayerDeath made with hp = 1 brings hp to
\* 0 and requests GAME_OVER, and the respawn logic does not run: x, y, vx,
\* vy and invincibleTimer are as they were before the call.
C11_FatalDamageDoesNotRespawn ==
  \A i \in AcceptedDeaths :
     ev.deaths[i].before = 1 =>
        /\ ev.deaths[i].after = 0
        /\ "GAME_OVER" \in Requested
        /\ ev.deaths[i].to = ev.deaths[i].from

\* the player lost its last life standing on the ground
C11_Witness ==
  /\ AcceptedDeaths # {}
  /\ \E i \in AcceptedDeaths : ev.deaths[i].before = 1 /\ ev.deaths[i].from.y = 512
  /\ gameState = "GAME_OVER"

\* C12: an accepted call of handlePlayerDeath that leaves hp > 0 respawns
\* the player: y = -100, x = max(camera.x + 50, x before the call), so x
\* does not decrease, vx = vy = 0 and invincibleTimer = 180.
C12_RespawnAfterNonFatalDamage ==
  \A i \in AcceptedDeaths :
     ev.deaths[i].after > 0 =>
        /\ ev.deaths[i].to.y = -100
        /\ ev.deaths[i].to.x = Max(ev.deaths[i].cameraX + 50, ev.deaths[i].from.x)
        /\ ev.deaths[i].to.x >= ev.deaths[i].from.x
        /\ ev.deaths[i].to.vx = 0
        /\ ev.deaths[i].to.vy = 0
        /\ ev.deaths[i].to.invincibleTimer = 180

\* a respawn of a player that was ahead of the camera margin and moving
C12_Witness ==
  \E i \in AcceptedDeaths :
     /\ ev.deaths[i].after > 0
     /\ ev.deaths[i].from.x > ev.deaths[i].cameraX + 50
     /\ ev.deaths[i].from.vx # 0
     /\ player.y = -100

\* the fixed configuration initLevel builds
FixedConfiguration(p, cam, bs, es) ==
  /\ p = InitialPlayer
  /\ p.x = 100 /\ p.y = 100 /\ p.hp = 3 /\ p.score = 0 /\ p.invincibleTimer = 0
  /\ cam.x = 0
  /\ bs = << >>
  /\ es = LevelEnemies
  /\ Len(es) = 9
  /\ \A j \in 1..Len(es) : ~es[j].isDead /\ es[j].hp = InitialHp(es[j].type)

\* C13: the game enters PLAYING only from the menu, and whenever it does
\* (first start or after a restart from GAME_OVER or VICTORY) the level is
\* in the fixed configuration of initLevel, so the first step starts from it.
C13_PlayingStartsFromInitLevel ==
  [][ /\ gameState = "MENU" => FixedConfiguration(player, camera, bullets, enemies)
      /\ (gameState # "PLAYING" /\ gameState' = "PLAYING") =>
            /\ gameState = "MENU"
            /\ FixedConfiguration(player', camera', bullets', enemies')
            /\ ~ev'.stepped ]_vars

\* the menu after a restart from a lost game: the App still holds the lives
\* of that game, the level is initialised again
C13_Witness ==
  /\ gameState = "MENU"
  /\ lives < 3
  /\ FixedConfiguration(player, camera, bullets, enemies)

\* the velocity the priority table gives a player bullet, from the keys
\* held, the facing direction and the grounded flag
AimTable(inp, direction, isGrounded) ==
  IF inp.up
  THEN IF inp.left \/ inp.right
       THEN [vx |-> direction * ((7 * BULLET_SPEED) \div 10), vy |-> -((7 * BULLET_SPEED) \div 10)]
       ELSE [vx |-> 0, vy |-> -BULLET_SPEED]
  ELSE IF inp.down /\ ~isGrounded
  THEN IF inp.left \/ inp.right
       THEN [vx |-> direction * ((7 * BULLET_SPEED) \div 10), vy |-> (7 * BULLET_SPEED) \div 10]
       ELSE [vx |-> 0, vy |-> BULLET_SPEED]
  ELSE [vx |-> direction * BULLET_SPEED, vy |-> 0]

\* C14: in every step in which the player fires, the velocity of the
\* bullet is the one of the priority table (up first, then down while
\* airborne, else horizontal; 0.7 * BULLET_SPEED on the diagonals), for the
\* keys held in the step and the direction and grounded flag the player
\* has when the shot is made.
C14_BulletVelocityTable ==
  [][ (tick' = tick + 1 /\ ev'.shots # << >>) =>
         /\ Len(ev'.shots) = 1
         /\ LET v == AimTable(inputs, ev'.aim.direction, ev'.aim.isGrounded)
            IN ev'.shots[1].vx = v.vx /\ ev'.shots[1].vy = v.vy ]_vars

\* a shot made on the ground with down and a horizontal key held (and not
\* up): the bullet flies level
C14_Witness ==
  /\ ev.shots # << >>
  /\ inputs.down /\ ~inputs.up /\ inputs.left
  /\ ev.aim.isGrounded
  /\ ev.shots[1].vx = -BULLET_SPEED /\ ev.shots[1].vy = 0

\* C15: in every step the horizontal velocity and the facing follow from
\* the keys alone (left: -PLAYER_SPEED and Left, also with right held; else
\* right: +PLAYER_SPEED and Right; else 0 and the facing kept), and x after
\* integration and the left bound is max(camera.x, old x + vx).
C15_HorizontalMovementFromInput ==
  [][ tick' = tick + 1 =>
        /\ ev'.run.x0 = player.x /\ ev'.run.facing0 = player.direction
        /\ ev'.run.cameraX = camera.x
        /\ IF inputs.left
           THEN ev'.run.vx = -PLAYER_SPEED /\ ev'.run.facing = Left
           ELSE IF inputs.right
           THEN ev'.run.vx = PLAYER_SPEED /\ ev'.run.facing = Right
           ELSE ev'.run.vx = 0 /\ ev'.run.facing = player.direction
        /\ ev'.run.x = Max(camera.x, player.x + ev'.run.vx)
        /\ (player.x = 100 /\ camera.x = 0 /\ inputs.right /\ ~inputs.left) =>
              (ev'.run.x = 100 + PLAYER_SPEED /\ ev'.run.facing = Right) ]_vars

\* left and right held together with the player at the left edge of the
\* view: it faces left and stays at camera.x
C15_Witness ==
  /\ ev.stepped
  /\ inputs.left /\ inputs.right
  /\ ev.run.facing = Left /\ ev.run.vx = -PLAYER_SPEED
  /\ ev.run.x0 + ev.run.vx < ev.run.cameraX
  /\ ev.run.x = ev.run.cameraX

\* C19: the player fires in a step exactly when shoot is held and
\* shootCooldown, after the decrement of the step, is <= 0; a shot pushes
\* one bullet of owner player and life 100 and sets shootCooldown to
\* SHOOT_COOLDOWN; a shot comes at least SHOOT_COOLDOWN steps after the
\* previous one, and shootCooldown stays within 0..SHOOT_COOLDOWN.
C19_PlayerFireRule ==
  [][ tick' = tick + 1 =>
        LET cd == IF player.shootCooldown > 0 THEN player.shootCooldown - 1
                  ELSE player.shootCooldown
            fires == ev'.shots # << >>
        IN /\ fires <=> (inputs.shoot /\ cd <= 0)
           /\ fires =>
                 /\ Len(ev'.shots) = 1
                 /\ ev'.shots[1].owner = "player"
                 /\ ev'.shots[1].life = 100
                 /\ player'.shootCooldown = SHOOT_COOLDOWN
                 /\ ev.sinceShot + 1 >= SHOOT_COOLDOWN
           /\ ~fires => player'.shootCooldown = cd
           /\ player.shootCooldown \in 0..SHOOT_COOLDOWN
           /\ player'.shootCooldown \in 0..SHOOT_COOLDOWN ]_vars

\* a shot made exactly SHOOT_COOLDOWN steps after the previous one, the
\* fire key being held
C19_Witness ==
  /\ ev.shots # << >>
  /\ ev.sincePrev = SHOOT_COOLDOWN - 1
  /\ inputs.shoot
  /\ player.shootCooldown = SHOOT_COOLDOWN

\* the bullets enemy j pushed in the last step
ShotsOf(e, j) == {k \in 1..Len(e.enemyShots) : e.enemyShots[k].enemy = j}

\* the enemies that lost hp to a player bullet in the last step
Damaged(e) == UNION {e.bulletHits[k].damaged : k \in 1..Len(e.bulletHits)}

\* the enemies whose touch damaged the player in the last step
Touchers(e) == {e.touches[k] : k \in 1..Len(e.touches)}

\* C16: the enemy collection keeps its length and every enemy its type in
\* every step after initLevel; in a step of update an enemy that is dead
\* stays dead and is inert: the whole record (position, hp, shootCooldown
\* included) is unchanged, it pushes no bullet, no player bullet takes hp
\* from it or is stopped by it (a bullet that overlaps dead enemies only
\* keeps its life), and its touch does not call handlePlayerDeath.  (The
\* damage meant is the touch damage of the enemy loop: a bullet that a
\* turret pushed before it died is an entity of the bullet collection.)
C16_DeadEnemiesAreInert ==
  [][ /\ Len(enemies') = Len(enemies)
      /\ Len(enemies) = 9
      /\ \A j \in 1..Len(enemies) : enemies'[j].type = enemies[j].type
      /\ tick' = tick + 1 =>
            /\ \A j \in 1..Len(enemies) :
                  enemies[j].isDead =>
                     /\ enemies'[j].isDead
                     /\ enemies'[j] = enemies[j]
                     /\ ShotsOf(ev', j) = {}
                     /\ j \notin Damaged(ev')
                     /\ j \notin Touchers(ev')
            /\ \A k \in 1..Len(ev'.bulletHits) :
                  ev'.bulletHits[k].damaged \cap ev'.bulletHits[k].dead = {}
            /\ \A k \in 1..Len(ev'.passed) :
                  /\ ev'.passed[k].lifeAfter = ev'.passed[k].life
                  /\ ev'.passed[k].lifeAfter > 0 ]_vars

\* a player bullet flies through a dead enemy that is within the
\* activation distance of the player
C16_Witness ==
  /\ ev.passed # << >>
  /\ \E j \in ev.passed[1].over :
        /\ enemies[j].isDead
        /\ Abs(player.x - enemies[j].x) < ActivationDistance

\* C18: a non-dead enemy whose distance |player.x - enemy.x|, taken when
\* the enemy loop comes to it, is >= 600 is dormant in the step: x, y, vx,
\* direction and shootCooldown are unchanged and it pushes no bullet.
\* Turrets and the boss keep their position in every step.
C18_FarEnemiesAreDormant ==
  [][ tick' = tick + 1 =>
        \A j \in 1..Len(enemies) :
           /\ ev'.touches = << >> => ev'.dist[j] = Abs(player'.x - enemies[j].x)
           /\ (~enemies[j].isDead /\ ev'.dist[j] >= 600) =>
                 /\ j \notin ev'.active
                 /\ enemies'[j].x = enemies[j].x
                 /\ enemies'[j].y = enemies[j].y
                 /\ enemies'[j].vx = enemies[j].vx
                 /\ enemies'[j].direction = enemies[j].direction
                 /\ enemies'[j].shootCooldown = enemies[j].shootCooldown
                 /\ ShotsOf(ev', j) = {}
           /\ enemies[j].type \in {"turret", "boss"} =>
                 /\ enemies'[j].x = enemies[j].x
                 /\ enemies'[j].y = enemies[j].y ]_vars

\* a turret just outside the activation distance, a few pixels before it
\* wakes up, while a nearer enemy is active
C18_Witness ==
  /\ ev.stepped
  /\ ev.active # {}
  /\ \E j \in 1..Len(enemies) :
        /\ enemies[j].type = "turret" /\ ~enemies[j].isDead
        /\ ev.dist[j] \in 600..602
        /\ j \notin ev.active

\* C20: a non-dead turret or boss fires only in a step in which it is
\* within the activation distance; a shot is one bullet of owner enemy and
\* life 200 and sets the cooldown to 120; a shot comes at least 120 active
\* steps after the previous shot of the same enemy; shootCooldown is never
\* below 0 at the end of a step.
C20_EnemyFireRule ==
  [][ tick' = tick + 1 =>
        \A j \in 1..Len(enemies) :
           /\ enemies'[j].shootCooldown >= 0
           /\ enemies[j].type = "runner" => ShotsOf(ev', j) = {}
           /\ \A k \in ShotsOf(ev', j) :
                 /\ Cardinality(ShotsOf(ev', j)) = 1
                 /\ j \in ev'.active
                 /\ ~enemies[j].isDead
                 /\ ev'.enemyShots[k].bullet.owner = "enemy"
                 /\ ev'.enemyShots[k].bullet.life = 200
                 /\ enemies'[j].shootCooldown = 120
                 /\ ev.activeSince[j] + 1 >= 120
           /\ (j \in ev'.active /\ ShotsOf(ev', j) = {} /\ enemies[j].type # "runner") =>
                 /\ enemies'[j].shootCooldown = enemies[j].shootCooldown - 1
                 /\ enemies'[j].shootCooldown > 0 ]_vars

\* the boss fires exactly 120 active steps after its previous shot
C20_Witness ==
  \E k \in 1..Len(ev.enemyShots) :
     /\ ev.enemyShots[k].since = 119
     /\ enemies[ev.enemyShots[k].enemy].type = "boss"
     /\ enemies[ev.enemyShots[k].enemy].shootCooldown = 120

\* what every hit of a player bullet on an enemy is like: the bullet was
\* live (it had not hit before), exactly one enemy lost hp, exactly 1, and
\* it is the first non-dead enemy in collection order among those the
\* bullet overlaps; the bullet is left with life 0, so that the next bullet
\* pass removes it before any collision test
OneHit(h) ==
  /\ h.owner = "player"
  /\ h.life > 0
  /\ h.overlapped \ h.dead # {}
  /\ \E j \in h.overlapped \ h.dead :
        /\ h.damaged = {j}
        /\ \A n \in h.overlapped \ h.dead : j <= n
  /\ h.drop = {1}
  /\ h.spent

\* C17 as stated: a player bullet damages one enemy, the first non-dead
\* one it overlaps in collection order, by 1 hp, and never damages again;
\* an enemy with hp 1 that is hit becomes dead and awards 100.
C17_OneHitPerBullet_Awards100 ==
  \A k \in 1..Len(ev.bulletHits) :
     LET h == ev.bulletHits[k]
     IN /\ OneHit(h)
        /\ \A j \in h.damaged :
              h.hpBefore[j] = 1 => (j \in h.deadAfter /\ h.gain = 100)

\* C17, amended: the same, and an enemy with hp 1 that is hit becomes dead
\* and awards 100 if it is a runner or a turret, 1000 if it is the boss; a
\* hit that leaves hp above 0 awards nothing.
C17_OneHitPerBullet ==
  \A k \in 1..Len(ev.bulletHits) :
     LET h == ev.bulletHits[k]
     IN /\ OneHit(h)
        /\ \A j \in h.damaged :
              /\ h.hpBefore[j] = 1 =>
                    /\ j \in h.deadAfter
                    /\ h.gain = (IF enemies[j].type = "boss" THEN 1000 ELSE 100)
              /\ h.hpBefore[j] > 1 => (j \notin h.deadAfter /\ h.gain = 0)

\* a bullet that overlaps the last runner and the boss, both alive: the
\* runner, first in the collection, is killed for 100 and the boss keeps
\* its 50 hp
C17_Witness ==
  \E k \in 1..Len(ev.bulletHits) :
     /\ ev.bulletHits[k].overlapped \ ev.bulletHits[k].dead = {8, 9}
     /\ ev.bulletHits[k].damaged = {8}
     /\ ev.bulletHits[k].gain = 100
     /\ enemies[8].isDead
     /\ enemies[9].hp = 50

\* C21: a step taken with jump and down held by a grounded player is a
\* drop-through, not a jump: y is nudged down by 1 and vy set to 1 before
\* gravity, so that integration leaves the player 1 + 1 + GRAVITY lower
\* with vy = 1 + GRAVITY instead of JUMP_FORCE + GRAVITY; and in no step
\* does the player land on a platform it dropped from while it has
\* overlapped that platform ever since, the solid ground included.
C21_DropThrough ==
  [][ tick' = tick + 1 =>
        /\ (inputs.jump /\ inputs.down /\ player.isGrounded) =>
              /\ ev'.jump = "drop"
              /\ ev'.afterInt.y = player.y + 1 + 1 + GRAVITY
              /\ ev'.afterInt.vy = 1 + GRAVITY
              /\ ev'.afterInt.vy # JUMP_FORCE + GRAVITY
        /\ ev'.relanded = {} ]_vars

\* the player is still falling through the pass-through platform at
\* (950, 400) in a step after the one in which it dropped from it
C21_Witness ==
  /\ ev.jump = "none"
  /\ \E i \in ev.dropFrom :
        /\ platforms[i].x = 950 /\ platforms[i].y = 400
        /\ checkCollision(player, platforms[i])
  /\ player.vy > 1 + GRAVITY

LossesOf(e) ==
  {k \in 1..Len(e.deaths) : e.deaths[k].after < e.deaths[k].before}

\* C23: a step takes a life only if the last step that took one lies at
\* least 180 steps back (so none of the 179 steps after a non-fatal loss
\* takes a life, a fall below the level included); a step whose first loss
\* is not fatal takes exactly one life and ends with 179 on the timer; the
\* timer goes down by exactly 1 in every step it starts above 0 and is
\* never negative.
C23_InvincibilityWindow ==
  [][ tick' = tick + 1 =>
        /\ player'.hp < player.hp => ev.sinceLoss >= 179
        /\ ev.sinceLoss < 179 => LossesOf(ev') = {}
        /\ \A k \in LossesOf(ev') :
              ev'.deaths[k].after > 0 =>
                 /\ LossesOf(ev') = {k}
                 /\ player'.hp = player.hp - 1
                 /\ player'.invincibleTimer = 179
        /\ player.invincibleTimer > 0 =>
              /\ player'.invincibleTimer = player.invincibleTimer - 1
              /\ player'.hp = player.hp
        /\ player'.invincibleTimer >= 0 ]_vars

\* the player, invincible after a loss less than 180 steps back, is below
\* the level: handlePlayerDeath is called and takes no life
C23_Witness ==
  /\ ev.sinceLoss > 0 /\ ev.sinceLoss < 180
  /\ player.invincibleTimer > 0
  /\ player.hp = ev.hpStart
  /\ \E k \in 1..Len(ev.deaths) :
        /\ ev.deaths[k].from.y > CANVAS_HEIGHT
        /\ ev.deaths[k].timer > 0
        /\ ev.deaths[k].after = ev.deaths[k].before

\* the player p is horizontally over the platform plat
Over(x, width, plat) ==
  x < plat.x + plat.width /\ x + width > plat.x

\* a step of rest: it starts with the player grounded on top of a platform,
\* the jump key is not held and the x reached is still over that platform
Resting(x) ==
  /\ tick' = tick + 1
  /\ player.isGrounded
  /\ ~inputs.jump
  /\ \E i \in StoodOn(player, platforms) : Over(x, player.width, platforms[i])

\* C24 as stated: a step of rest ends with isGrounded true, vy = 0 and the
\* y it started with.
C24_RestingIsStable_Always ==
  [][ Resting(player'.x) =>
        /\ player'.isGrounded
        /\ player'.vy = 0
        /\ player'.y = player.y ]_vars

\* C24, amended: in a step of rest gravity moves the player down by GRAVITY
\* and the collision pass snaps it back: after the pass isGrounded is true,
\* vy = 0 and y is the y the step started with; the step ends so unless a
\* call of handlePlayerDeath in that step took a life that was not the
\* last, and then it ends respawned: y = -100, vy = 0, isGrounded true.
C24_RestingIsStable ==
  [][ Resting(ev'.afterInt.x) =>
        /\ ev'.afterInt.y = player.y + GRAVITY
        /\ ev'.afterCol = [y |-> player.y, vy |-> 0, isGrounded |-> TRUE]
        /\ player'.isGrounded
        /\ player'.vy = 0
        /\ IF \E k \in LossesOf(ev') : ev'.deaths[k].after > 0
           THEN player'.y = -100
           ELSE player'.y = player.y ]_vars

\* a step of rest on the ground, past the boss checkpoint, whose gravity
\* was cancelled by the snap
C24_Witness ==
  /\ tick > BossTick + 1
  /\ ev.startOnPlatform
  /\ ev.jump = "none"
  /\ ~inputs.jump
  /\ ev.afterInt.vy = GRAVITY
  /\ ev.afterInt.y = ev.afterCol.y + GRAVITY
  /\ ev.afterCol.isGrounded
  /\ player.isGrounded /\ player.vy = 0 /\ player.y = ev.afterCol.y
  /\ OnPlatform(player, platforms)

\* the most steps a bullet of the owner stays in the collection after the
\* step that spawned it: a player bullet has its first turn in that step
Lifetime(owner) == IF owner = "player" THEN 100 - 1 ELSE 200

\* the most bullets the level can hold: the player fires once in
\* SHOOT_COOLDOWN steps, a turret or boss once in 120
MaxBullets ==
  ((Lifetime("player") + SHOOT_COOLDOWN) \div SHOOT_COOLDOWN)
  + Cardinality({j \in 1..Len(LevelEnemies) : LevelEnemies[j].type # "runner"})
      * ((Lifetime("enemy") + 120) \div 120)

\* C25: every bullet is removed: in every step each bullet of the
\* collection, the player's new one included, has its turn; a turn either
\* splices the bullet out or leaves it with a life that is smaller than
\* before and not negative, and splices it out when its life has run out;
\* at the end of a step a bullet has at most 99 (player) or 200 (enemy)
\* such turns left, so it is gone at most 100 or 200 steps after the step
\* that spawned it, and the collection is bounded.
C25_BulletsExpire ==
  [][ tick' = tick + 1 =>
        /\ Len(ev'.turns) = Len(bullets) + Len(ev'.shots)
        /\ \A k \in 1..Len(ev'.turns) :
              LET t == ev'.turns[k]
              IN /\ t.before - 1 <= 0 => t.removed
                 /\ ~t.removed => (t.after < t.before /\ t.after >= 0)
        /\ \A i \in 1..Len(bullets') :
              /\ bullets'[i].life >= 0
              /\ bullets'[i].life <= Lifetime(bullets'[i].owner)
        /\ \A k \in 1..Len(ev'.shots) : ev'.shots[k].life = 100
        /\ \A k \in 1..Len(ev'.enemyShots) : ev'.enemyShots[k].bullet.life = 200
        /\ Len(bullets') <= MaxBullets ]_vars

\* a bullet that hit in the step before is spliced out because its life
\* has run out, while a younger bullet stays with its life one less
C25_Witness ==
  /\ \E k \in 1..Len(ev.turns) :
        ev.turns[k].removed /\ ev.turns[k].before = 0
  /\ \E k \in 1..Len(ev.turns) :
        ~ev.turns[k].removed /\ ev.turns[k].after = ev.turns[k].before - 1

\* C26: at the end of every step every enemy is dead exactly when its hp
\* is 0 or less, and its hp lies between 0 and the hp it was spawned with
\* (1 for a runner or a turret, 50 for the boss); no step raises the hp of
\* an enemy, and a step lowers it by the hits it took in that step.
C26_EnemyHpRange ==
  [][ tick' = tick + 1 =>
        \A j \in 1..Len(enemies') :
           /\ enemies'[j].isDead <=> enemies'[j].hp <= 0
           /\ enemies'[j].hp >= 0
           /\ enemies'[j].hp <= (IF enemies'[j].type = "boss" THEN 50 ELSE 1)
           /\ enemies'[j].hp <= enemies[j].hp
           /\ enemies'[j].hp < enemies[j].hp => j \in Damaged(ev')
           /\ enemies[j].isDead => enemies'[j].isDead ]_vars

\* the boss has lost some of its 50 hp and lives, and a runner whose one
\* hp was shot away is dead
C26_Witness ==
  /\ ev.stepped
  /\ Damaged(ev) # {}
  /\ \E j \in 1..Len(enemies) :
        /\ enemies[j].type = "boss"
        /\ enemies[j].hp > 0 /\ enemies[j].hp < 50
        /\ ~enemies[j].isDead
  /\ \E j \in 1..Len(enemies) :
        /\ enemies[j].type = "runner"
        /\ enemies[j].hp = 0
        /\ enemies[j].isDead

\* C27: from the first step after a start to the next restart the App's
\* lives and score are the player's hp and score at the end of every step,
\* in PLAYING and on the GAME_OVER and VICTORY screens alike.
C27_DisplayedCountersAgree ==
  (ev.stepped /\ gameState \in {"PLAYING", "GAME_OVER", "VICTORY"}) =>
     /\ lives = player.hp
     /\ score = player.score

\* the VICTORY screen after the step that killed the boss: the score shown
\* holds the boss's 1000 and is the player's
C27_Witness ==
  /\ ev.stepped
  /\ gameState = "VICTORY"
  /\ score = player.score /\ score >= 1000
  /\ lives = player.hp /\ lives < 3

====
